---- MODULE Spec2Model ----
(***************************************************************************)
(* Model of src/libs/fm.py: the libFM wrapper Libfm (argument list, the    *)
(* temporary files, the predictions file and the three-section model file  *)
(* parser of Libfm.run) and the fastFM wrapper Fastfm (estimator choice).   *)
(*                                                                         *)
(* Text is a sequence of one-character strings.  The three marker texts    *)
(* are single symbols ("global bias W0", ...) standing for exactly those   *)
(* characters; numerals are strings over the digits "1" and "2", so a      *)
(* float is modelled by the natural number its digits denote.  The code is *)
(* Python 2 (str.splitlines, str.split, float, str.upper on byte strings). *)
(***************************************************************************)
EXTENDS Integers, Sequences, FiniteSets, TLC

\* ------------------------------------------------------------------ bounds
\* longest model file (in lines) of the free-form family
MaxLines == 3
\* most rows after the pairwise marker in the pairwise family
MaxRows == 3
\* most features N of a well-formed model file
MaxN == 2
\* largest rank R of a well-formed model file
MaxR == 2
\* largest seed given to the constructor
MaxSeed == 2
\* largest rank k2 given to Fastfm
MaxRank == 2

\* ------------------------------------------------------------- characters
SP == " "
TAB == "\t"
NL == "\n"
HASH == "#"
BIAS_TXT == "global bias W0"
UNARY_TXT == "unary interactions Wj"
PAIR_TXT == "pairwise interactions Vj,f"

Digits == {"1", "2"}

DigitVal(c) == IF c = "1" THEN 1 ELSE 2

\* Python's None and a present value
None == [some |-> FALSE, val |-> 0]

Some(v) == [some |-> TRUE, val |-> v]

\* ---------------------------------------------------------- str helpers
\* all sequences over S of length 0..n
SeqsUpTo(S, n) == UNION {[1..k -> S] : k \in 0..n}

RECURSIVE Concat(_)
\* the concatenation of a sequence of sequences
Concat(ss) == IF ss = <<>> THEN <<>> ELSE Head(ss) \o Concat(Tail(ss))

RECURSIVE JoinWith(_, _)
\* sep.join(parts)
JoinWith(parts, sep) ==
    IF parts = <<>> THEN <<>>
    ELSE IF Len(parts) = 1 THEN parts[1]
    ELSE parts[1] \o sep \o JoinWith(Tail(parts), sep)

RECURSIVE SplitOn(_, _)
\* str.split(sep) for a one-character sep: never drops an empty piece
SplitOn(s, sep) ==
    IF \A k \in 1..Len(s) : s[k] # sep THEN <<s>>
    ELSE LET k == CHOOSE j \in 1..Len(s) :
                      s[j] = sep /\ \A h \in 1..(j-1) : s[h] # sep
         IN <<SubSeq(s, 1, k-1)>> \o SplitOn(SubSeq(s, k+1, Len(s)), sep)

\* the whitespace float() strips from both ends of its argument
IsSpace(c) == c \in {SP, TAB, NL}

RECURSIVE LStrip(_)
LStrip(s) == IF s # <<>> /\ IsSpace(s[1]) THEN LStrip(Tail(s)) ELSE s

RECURSIVE RStrip(_)
RStrip(s) ==
    IF s # <<>> /\ IsSpace(s[Len(s)]) THEN RStrip(SubSeq(s, 1, Len(s)-1)) ELSE s

Strip(s) == LStrip(RStrip(s))

RECURSIVE DecVal(_)
\* the number a digit string denotes
DecVal(ds) ==
    IF ds = <<>> THEN 0 ELSE 10 * DecVal(SubSeq(ds, 1, Len(ds)-1)) + DigitVal(ds[Len(ds)])

\* float(s) does not raise ValueError
IsFloat(s) == Strip(s) # <<>> /\ \A k \in 1..Len(Strip(s)) : Strip(s)[k] \in Digits

\* float(s), where it does not raise
FloatOf(s) == DecVal(Strip(s))

\* line.startswith('#')
StartsWithHash(line) == line # <<>> /\ line[1] = HASH

\* pat in line (substring test)
Contains(line, pat) ==
    \E k \in 1..(Len(line) - Len(pat) + 1) : SubSeq(line, k, k + Len(pat) - 1) = pat

\* the lines as line 227 takes them for the predictions: the empty ones dropped
SplitLinesNonEmpty(text) == SelectSeq(SplitOn(text, NL), LAMBDA q : q # <<>>)

\* str.splitlines(): split at the line ends; a final line end opens no new line
SplitLines(text) ==
    LET ps == SplitOn(text, NL)
    IN IF ps[Len(ps)] = <<>> THEN SubSeq(ps, 1, Len(ps)-1) ELSE ps

RECURSIVE WsTokens(_)
\* str.split() without a separator: the tokens between runs of whitespace
WsTokens(s) ==
    LET t == LStrip(s)
    IN IF t = <<>> THEN <<>>
       ELSE LET n == IF \E j \in 1..Len(t) : IsSpace(t[j])
                     THEN CHOOSE j \in 1..Len(t) :
                              IsSpace(t[j]) /\ \A h \in 1..(j-1) : ~IsSpace(t[h])
                     ELSE Len(t) + 1
            IN <<SubSeq(t, 1, n-1)>> \o WsTokens(SubSeq(t, n, Len(t)))

\* ------------------------------------------------ the model file parser
\* one element of pairwise_interactions: a list of floats ...
Row(vs) == [isRow |-> TRUE, vals |-> vs]

\* ... or the scalar 0.0 appended by the except branch
Sentinel == [isRow |-> FALSE, vals |-> <<0>>]

\* the loop starting in the weights section
OutIterInitWeights == 2 - 1

\* out_iter before the first line is read
OutIterInit == 0

\* out_iter after a line that starts with '#': the three substring tests, in order
MarkerSection(line, cur) ==
    IF Contains(line, <<HASH, BIAS_TXT>>) THEN 0
    ELSE IF Contains(line, <<HASH, UNARY_TXT>>) THEN 1
    ELSE IF Contains(line, <<HASH, PAIR_TXT>>) THEN 2
    ELSE cur

\* the line not split at all
RowPiecesUnsplit(line) == <<line>>

\* the line split by split(), at any run of whitespace
RowPiecesWhitespace(line) == WsTokens(line)

\* the pieces of a pairwise data line: line.split(' ')
RowPieces(line) == SplitOn(line, SP)

\* the except branch appending an empty row in place of the scalar
PairwiseRowEmptyList(line) ==
    IF \A k \in 1..Len(RowPieces(line)) : IsFloat(RowPieces(line)[k])
    THEN Row([k \in 1..Len(RowPieces(line)) |-> FloatOf(RowPieces(line)[k])])
    ELSE Row(<<>>)

\* try: append [float(x) for x in line.split(' ')]  except ValueError: append 0.0
PairwiseRow(line) ==
    LET ps == RowPieces(line)
    IN IF \A k \in 1..Len(ps) : IsFloat(ps[k])
       THEN Row([k \in 1..Len(ps) |-> FloatOf(ps[k])])
       ELSE Sentinel

\* the scalar sections guarded like the pairwise one: nothing raised
ScalarRaisesNever(line) == FALSE

\* float(line) of the bias and weights sections raises ValueError
ScalarRaises(line) == ~IsFloat(line)

\* the parser's variables before the loop
ParserInit ==
    [out_iter |-> OutIterInit, global_bias |-> None, weights |-> <<>>,
     pairwise_interactions |-> <<>>, raised |-> FALSE]

\* one iteration of the loop over the lines of the model file
ParseStep(p, line) ==
    IF StartsWithHash(line)
    THEN [p EXCEPT !.out_iter = MarkerSection(line, p.out_iter)]
    ELSE IF p.out_iter = 0
    THEN IF ScalarRaises(line) THEN [p EXCEPT !.raised = TRUE]
         ELSE [p EXCEPT !.global_bias = Some(FloatOf(line))]
    ELSE IF p.out_iter = 1
    THEN IF ScalarRaises(line) THEN [p EXCEPT !.raised = TRUE]
         ELSE [p EXCEPT !.weights = Append(p.weights, FloatOf(line))]
    ELSE IF p.out_iter = 2
    THEN [p EXCEPT !.pairwise_interactions =
                       Append(p.pairwise_interactions, PairwiseRow(line))]
    ELSE p

RECURSIVE ParseFrom(_, _)
\* the loop from parser state p over the lines ls; it stops where a line raises
ParseFrom(p, ls) ==
    IF ls = <<>> \/ p.raised THEN p ELSE ParseFrom(ParseStep(p, Head(ls)), Tail(ls))

\* the whole loop over the text of a model file
ParseText(text) == ParseFrom(ParserInit, SplitLines(text))

\* ----------------------------------------------------- the predictions file
\* the pieces kept by: for p in out_fd.read().split('\n') if p
PredPieces(text) == SelectSeq(SplitOn(text, NL), LAMBDA q : q # <<>>)

\* some float(p) raises ValueError
PredsRaise(text) == \E k \in 1..Len(PredPieces(text)) : ~IsFloat(PredPieces(text)[k])

\* preds, where no piece raises
PredsOf(text) == [k \in 1..Len(PredPieces(text)) |-> FloatOf(PredPieces(text)[k])]

\* ------------------------------------------------------------ persistence
\* np.savetxt(path, np.array(data)) accepts the data: a flat list of scalars or
\* rows of one length; a ragged list makes an object array that '%.8f' rejects
Savable(data) ==
    \/ \A k \in 1..Len(data) : ~data[k].isRow
    \/ \A k \in 1..Len(data) :
           data[k].isRow /\ Len(data[k].vals) = Len(data[1].vals)

\* ------------------------------------------------------- Libfm.__init__
\* self.__seed = int(seed) if seed else None
SeedField(sa) == IF sa.some /\ sa.val # 0 THEN Some(sa.val) ELSE None

\* ----------------------------------------------------- the argument list
\* if self.__seed: args.extend(['-seed', "%d" % self.__seed])
SeedArgs(sd) == IF sd.some /\ sd.val # 0 THEN <<"-seed", ToString(sd.val)>> ELSE <<>>

\* the args list of Libfm.run, the other constructor parameters at their defaults
ArgsOf(lm, rl, sd, vs, mt) ==
    <<"libFM", "-task", "c", "-train", "train.libsvm", "-test", "test.libsvm",
      "-dim", "'1,1,8'", "-init_stdev", "0.1", "-iter", "100", "-method", lm,
      "-out", "out_fd", "-verbosity", "0", "-save_model", "model_fd">>
    \o (IF rl THEN <<"-rlog", "rlog_fd">> ELSE <<>>)
    \o SeedArgs(sd)
    \o (IF lm \in {"sgd", "sgda"} THEN <<"-learn_rate", "0.10000">> ELSE <<>>)
    \o (IF lm \in {"sgd", "sgda", "als"}
        THEN <<"-regular", "'0.00000,0.00000,0.00000'">> ELSE <<>>)
    \o (IF lm = "sgda" /\ vs # "None" THEN <<"-validation", vs>> ELSE <<>>)
    \o (IF mt # "None" THEN <<"-meta", "meta_fd">> ELSE <<>>)

\* the temporary files opened while the argument list is built
ArgFiles(rl, mt) ==
    (IF rl THEN {"rlog_fd"} ELSE {}) \cup (IF mt # "None" THEN {"meta_fd"} ELSE {})

\* ------------------------------------------------------------------ state
VARIABLES
    seed_arg,          \* the seed given to Libfm.__init__ (None or an integer)
    seed,              \* self.__seed
    learning_method,   \* self.__learning_method
    rlog,              \* self.__rlog
    validation_set,    \* run's argument: "None" or a path
    meta,              \* run's argument: "None" or the group list
    libfm,             \* what the external program writes when it is called
    dir_ok,            \* model_path is a directory np.savetxt can write into
    pc,                \* run's position
    args,              \* the argument list handed to subprocess.call
    open_fds,          \* temporary files now open
    opened,            \* temporary files opened so far
    out_file,          \* text of out_fd
    model_file,        \* text of model_fd
    preds,
    lines,             \* model_fd.read().splitlines()
    idx,               \* the loop's position in lines
    out_iter,
    global_bias,
    weights,
    pairwise_interactions,
    saved,             \* files _save has written
    error,             \* the exception run raised, "" if none
    result,            \* the namedtuple run returned
    fm_pc,             \* Fastfm: position
    fm_arg,            \* Fastfm.__init__'s learning_method
    fm_rank,           \* Fastfm.__init__'s k2
    fm_estimator,      \* self.fm
    fm_method,         \* self.__method
    fm_branch,         \* the branch Fastfm.run took
    fm_error           \* the exception Fastfm raised, "" if none

objVars == <<seed_arg, seed, learning_method, rlog>>

callVars == <<validation_set, meta>>

envVars == <<libfm, dir_ok>>

fdVars == <<open_fds, opened>>

fileVars == <<out_file, model_file>>

parseVars == <<lines, idx, out_iter, global_bias, weights, pairwise_interactions>>

fmVars == <<fm_pc, fm_arg, fm_rank, fm_estimator, fm_method, fm_branch, fm_error>>

runVars ==
    <<pc, args, open_fds, opened, out_file, model_file, preds, lines, idx, out_iter,
      global_bias, weights, pairwise_interactions, saved, error, result>>

vars == <<objVars, callVars, envVars, runVars, fmVars>>

\* ------------------------------------------- what the external program writes
\* the text of a file of these lines, each ended by a line end
TextOf(ls) == Concat([k \in 1..Len(ls) |-> ls[k] \o <<NL>>])

\* the numeral libFM writes for a parameter value
Numeral(v) == IF v = 1 THEN <<"1">> ELSE <<"2">>

BiasMarker == <<HASH, BIAS_TXT>>

UnaryMarker == <<HASH, UNARY_TXT>>

PairMarker == <<HASH, PAIR_TXT>>

\* libFM's save_model: the row of one feature, its values separated by one space
RowLine(vs) == JoinWith([k \in 1..Len(vs) |-> Numeral(vs[k])], <<SP>>)

\* libFM's save_model for bias b, weights w and factors V
ModelText(b, w, V) ==
    TextOf(<<BiasMarker, Numeral(b), UnaryMarker>>
           \o [k \in 1..Len(w) |-> Numeral(w[k])]
           \o <<PairMarker>>
           \o [k \in 1..Len(V) |-> RowLine(V[k])])

\* the parameters of the model libFM saved, when the file is its save_model output
NoTruth == [wf |-> FALSE, b |-> 0, w |-> <<>>, V |-> <<>>]

Truth(b, w, V) == [wf |-> TRUE, b |-> b, w |-> w, V |-> V]

Vals == {1, 2}

\* the well-formed model files: one bias, N weights, N rows of R values
WellFormed ==
    {Truth(b, w, V) : b \in Vals,
                      w \in UNION {[1..n -> Vals] : n \in 0..MaxN},
                      V \in UNION {[1..n -> [1..r -> Vals]] : n \in 0..MaxN, r \in 1..MaxR}}

WellFormedOutputs ==
    {[out |-> TextOf(<<Numeral(1), Numeral(2)>>), model |-> ModelText(t.b, t.w, t.V),
      rlog_ok |-> TRUE, truth |-> t] : t \in {u \in WellFormed : Len(u.w) = Len(u.V)}}

\* lines of the free-form model files
FreeLines ==
    {BiasMarker, UnaryMarker, PairMarker, <<HASH, "x">>,
     <<HASH, UNARY_TXT, SP, HASH, BIAS_TXT>>,
     <<>>, <<"1">>, <<"2">>, <<"x">>, <<"1", SP, "2">>}

\* data lines tried after the pairwise marker
RowLines ==
    {<<>>, <<"1", SP, "2">>, <<"2", SP, "1">>, <<"1", SP, SP, "2">>,
     <<"1", TAB, "2">>, <<SP, "1", SP, "2">>, <<"1", SP, "2", SP>>,
     <<"1", SP, "2", TAB>>, <<"1", SP, "x">>, <<TAB>>}

\* any text of at most MaxLines lines, its last line ended or not, and any rows
\* after the pairwise marker
FreeOutputs ==
    {[out |-> TextOf(<<Numeral(1), Numeral(2)>>), model |-> m, rlog_ok |-> TRUE,
      truth |-> NoTruth] :
        m \in {JoinWith(ls, <<NL>>) : ls \in SeqsUpTo(FreeLines, MaxLines)}
              \cup {TextOf(ls) : ls \in SeqsUpTo(FreeLines, MaxLines)}
              \cup {TextOf(<<PairMarker>> \o rs) : rs \in SeqsUpTo(RowLines, MaxRows)}}

\* a few outcomes of the external program for the runs over every configuration
SomeModels ==
    {[text |-> ModelText(1, <<1, 2>>, <<<<1, 2>>, <<2, 1>>>>),
      truth |-> Truth(1, <<1, 2>>, <<<<1, 2>>, <<2, 1>>>>)],
     [text |-> TextOf(<<BiasMarker, <<"1">>, UnaryMarker, <<"x">>>>), truth |-> NoTruth],
     [text |-> TextOf(<<PairMarker, <<"1", SP, "2">>, <<>>>>), truth |-> NoTruth],
     [text |-> <<>>, truth |-> NoTruth]}

SomePreds == {TextOf(<<<<"1">>, <<"2">>>>), TextOf(<<<<"1">>, <<"x">>>>), <<>>}

SomeOutputs ==
    {[out |-> o, model |-> m.text, rlog_ok |-> r, truth |-> m.truth] :
        o \in SomePreds, m \in SomeModels, r \in BOOLEAN}

\* ------------------------------------------------------------------- Init
Methods == {"sgd", "sgda", "als", "mcmc"}

Seeds == {None} \cup {Some(n) : n \in 0..MaxSeed}

\* Libfm(seed=sa, learning_method=lm, rlog=rl)
Constructed(sa, lm, rl) ==
    /\ seed_arg = sa
    /\ seed = SeedField(sa)
    /\ learning_method = lm
    /\ rlog = rl

\* run has not started
RunStart ==
    /\ pc = "start"
    /\ args = <<>>
    /\ open_fds = {}
    /\ opened = {}
    /\ out_file = <<>>
    /\ model_file = <<>>
    /\ preds = <<>>
    /\ lines = <<>>
    /\ idx = 1
    /\ out_iter = OutIterInit
    /\ global_bias = None
    /\ weights = <<>>
    /\ pairwise_interactions = <<>>
    /\ saved = {}
    /\ error = ""
    /\ result = [predictions |-> <<>>, global_bias |-> None, weights |-> <<>>,
                 pairwise_interactions |-> <<>>, rlog |-> "None"]

NoEstimator == [cls |-> "none", rank |-> 0]

\* no Fastfm has been constructed
FastfmStart ==
    /\ fm_pc = "new"
    /\ fm_arg = <<>>
    /\ fm_rank = 0
    /\ fm_estimator = NoEstimator
    /\ fm_method = <<>>
    /\ fm_branch = "none"
    /\ fm_error = ""

\* every configuration of Libfm and of run's arguments, a few program outputs
Init ==
    /\ \E sa \in Seeds, lm \in Methods, rl \in BOOLEAN : Constructed(sa, lm, rl)
    /\ validation_set \in {"None", "valid.libsvm"}
    /\ meta \in {"None", "groups"}
    /\ libfm \in SomeOutputs
    /\ dir_ok \in BOOLEAN
    /\ RunStart
    /\ FastfmStart

\* Libfm() and run(train, test) with the defaults
Defaults ==
    /\ Constructed(None, "mcmc", TRUE)
    /\ validation_set = "None"
    /\ meta = "None"
    /\ dir_ok = TRUE
    /\ RunStart
    /\ FastfmStart

\* the default run over every well-formed model file
InitWellFormed == Defaults /\ libfm \in WellFormedOutputs

\* the default run over the free-form model files
InitFree == Defaults /\ libfm \in FreeOutputs

\* Fastfm alone
InitFastfm ==
    /\ Defaults
    /\ libfm = [out |-> <<>>, model |-> <<>>, rlog_ok |-> TRUE, truth |-> NoTruth]

\* ------------------------------------------------------------ Libfm.run
\* run ends by an exception
Raise(e) == pc' = "raised" /\ error' = e

\* out_fd and model_fd are created
OpenTemps ==
    /\ pc = "start"
    /\ open_fds' = open_fds \cup {"out_fd", "model_fd"}
    /\ opened' = opened \cup {"out_fd", "model_fd"}
    /\ pc' = "args"
    /\ UNCHANGED <<objVars, callVars, envVars, fmVars, args, fileVars, preds,
                   parseVars, saved, error, result>>

\* the argument list is built; rlog_fd and meta_fd are created on the way
BuildArgs ==
    /\ pc = "args"
    /\ args' = ArgsOf(learning_method, rlog, seed, validation_set, meta)
    /\ open_fds' = open_fds \cup ArgFiles(rlog, meta)
    /\ opened' = opened \cup ArgFiles(rlog, meta)
    /\ pc' = "call"
    /\ UNCHANGED <<objVars, callVars, envVars, fmVars, fileVars, preds, parseVars,
                   saved, error, result>>

\* subprocess.call: the program runs and writes its output files
CallLibfm ==
    /\ pc = "call"
    /\ out_file' = libfm.out
    /\ model_file' = libfm.model
    /\ pc' = "preds"
    /\ UNCHANGED <<objVars, callVars, envVars, fmVars, args, fdVars, preds,
                   parseVars, saved, error, result>>

\* the predictions are read and saved
ReadPreds ==
    /\ pc = "preds"
    /\ IF PredsRaise(out_file)
       THEN Raise("ValueError") /\ UNCHANGED <<preds, saved>>
       ELSE /\ preds' = PredsOf(out_file)
            /\ IF dir_ok
               THEN pc' = "init_parse" /\ saved' = saved \cup {"predictions.libfm"}
                    /\ UNCHANGED error
               ELSE Raise("IOError") /\ UNCHANGED saved
    /\ UNCHANGED <<objVars, callVars, envVars, fmVars, args, fdVars, fileVars,
                   parseVars, result>>

\* the parser's variables are set and the model file is read
BeginParse ==
    /\ pc = "init_parse"
    /\ global_bias' = ParserInit.global_bias
    /\ weights' = ParserInit.weights
    /\ pairwise_interactions' = ParserInit.pairwise_interactions
    /\ out_iter' = ParserInit.out_iter
    /\ lines' = SplitLines(model_file)
    /\ idx' = 1
    /\ pc' = "parse"
    /\ UNCHANGED <<objVars, callVars, envVars, fmVars, args, fdVars, fileVars,
                   preds, saved, error, result>>

\* the parser's variables as a record
Parser ==
    [out_iter |-> out_iter, global_bias |-> global_bias, weights |-> weights,
     pairwise_interactions |-> pairwise_interactions, raised |-> FALSE]

\* one iteration of the loop
ParseLine ==
    /\ pc = "parse"
    /\ idx <= Len(lines)
    /\ LET p == ParseStep(Parser, lines[idx])
       IN /\ out_iter' = p.out_iter
          /\ global_bias' = p.global_bias
          /\ weights' = p.weights
          /\ pairwise_interactions' = p.pairwise_interactions
          /\ IF p.raised
             THEN Raise("ValueError") /\ UNCHANGED idx
             ELSE idx' = idx + 1 /\ UNCHANGED <<pc, error>>
    /\ UNCHANGED <<objVars, callVars, envVars, fmVars, args, fdVars, fileVars,
                   preds, lines, saved, result>>

\* after the loop: weights and pairwise_interactions are saved
SaveModel ==
    /\ pc = "parse"
    /\ idx > Len(lines)
    /\ IF ~dir_ok
       THEN Raise("IOError") /\ UNCHANGED saved
       ELSE IF ~Savable(pairwise_interactions)
       THEN Raise("TypeError") /\ saved' = saved \cup {"weights.libfm"}
       ELSE /\ saved' = saved \cup {"weights.libfm", "latent.libfm"}
            /\ pc' = "rlog"
            /\ UNCHANGED error
    /\ UNCHANGED <<objVars, callVars, envVars, fmVars, args, fdVars, fileVars,
                   preds, parseVars, result>>

\* the rlog file is read into a frame and closed
ParseRlog ==
    /\ pc = "rlog"
    /\ IF rlog
       THEN IF libfm.rlog_ok
            THEN /\ result' = [result EXCEPT !.rlog = "DataFrame"]
                 /\ open_fds' = open_fds \ {"rlog_fd"}
                 /\ pc' = "close_validation"
                 /\ UNCHANGED error
            ELSE Raise("EmptyDataError") /\ UNCHANGED <<result, open_fds>>
       ELSE /\ result' = [result EXCEPT !.rlog = "None"]
            /\ pc' = "close_validation"
            /\ UNCHANGED <<open_fds, error>>
    /\ UNCHANGED <<objVars, callVars, envVars, fmVars, args, opened, fileVars,
                   preds, parseVars, saved>>

\* validation_fd.close(): validation_fd is None
CloseValidation ==
    /\ pc = "close_validation"
    /\ IF learning_method = "sgda" /\ validation_set # "None"
       THEN Raise("AttributeError")
       ELSE pc' = "close_meta" /\ UNCHANGED error
    /\ UNCHANGED <<objVars, callVars, envVars, fmVars, args, fdVars, fileVars,
                   preds, parseVars, saved, result>>

\* meta_fd.close()
CloseMeta ==
    /\ pc = "close_meta"
    /\ open_fds' = IF meta # "None" THEN open_fds \ {"meta_fd"} ELSE open_fds
    /\ pc' = "close_temps"
    /\ UNCHANGED <<objVars, callVars, envVars, fmVars, args, opened, fileVars,
                   preds, parseVars, saved, error, result>>

\* model_fd.close(); out_fd.close()
CloseTemps ==
    /\ pc = "close_temps"
    /\ open_fds' = open_fds \ {"model_fd", "out_fd"}
    /\ pc' = "return"
    /\ UNCHANGED <<objVars, callVars, envVars, fmVars, args, opened, fileVars,
                   preds, parseVars, saved, error, result>>

\* return model(preds, global_bias, weights, pairwise_interactions, rlog)
Return ==
    /\ pc = "return"
    /\ result' = [predictions |-> preds, global_bias |-> global_bias,
                  weights |-> weights,
                  pairwise_interactions |-> pairwise_interactions,
                  rlog |-> result.rlog]
    /\ pc' = "returned"
    /\ UNCHANGED <<objVars, callVars, envVars, fmVars, args, fdVars, fileVars,
                   preds, parseVars, saved, error>>

\* -------------------------------------------------------------- Fastfm
\* str.upper() of one character
UpperChar(c) ==
    CASE c = "m" -> "M" [] c = "c" -> "C" [] c = "a" -> "A" [] c = "l" -> "L"
      [] c = "s" -> "S" [] c = "g" -> "G" [] c = "d" -> "D" [] c = "x" -> "X"
      [] OTHER -> c

\* the method compared as given, its case unchanged
UpperUnchanged(s) == s

\* learning_method.upper()
Upper(s) == [k \in 1..Len(s) |-> UpperChar(s[k])]

MCMC == <<"M", "C", "M", "C">>

ALS == <<"A", "L", "S">>

SGD == <<"S", "G", "D">>

\* the class __init__ instantiates for learning_method lm, "none" where it raises
EstimatorClass(lm) ==
    IF Upper(lm) = MCMC THEN "mcmc.FMClassification"
    ELSE IF Upper(lm) = ALS THEN "als.FMClassification"
    ELSE IF Upper(lm) = SGD THEN "sgd.FMClassification"
    ELSE "none"

\* the branch of Fastfm.run for self.__method
RunBranch(method) ==
    IF method \in {SGD, ALS} THEN "fit"
    ELSE IF method = MCMC THEN "fit_predict"
    ELSE "none"

RECURSIVE Casings(_)
\* every way to write the word w in upper and lower case letters
Casings(w) ==
    IF w = <<>> THEN {<<>>}
    ELSE {<<c>> \o r : c \in {w[1], UpperChar(w[1])}, r \in Casings(Tail(w))}

\* the learning_method strings tried
MethodStrings ==
    Casings(<<"m", "c", "m", "c">>) \cup Casings(<<"a", "l", "s">>)
    \cup Casings(<<"s", "g", "d">>) \cup Casings(<<"s", "g", "d", "a">>)
    \cup {<<>>, <<"x">>, <<"m", "c">>, <<"a", "l", "s", "x">>, <<"x", "s", "g", "d">>}

\* Fastfm(learning_method=lm, k2=k)
FastfmInit ==
    /\ fm_pc = "new"
    /\ \E lm \in MethodStrings, k \in 1..MaxRank :
         /\ fm_arg' = lm
         /\ fm_rank' = k
         /\ IF EstimatorClass(lm) = "none"
            THEN /\ fm_pc' = "raised"
                 /\ fm_error' = "TypeError"
                 /\ UNCHANGED <<fm_estimator, fm_method>>
            ELSE /\ fm_estimator' = [cls |-> EstimatorClass(lm), rank |-> k]
                 /\ fm_method' = Upper(lm)
                 /\ fm_pc' = "constructed"
                 /\ UNCHANGED fm_error
    /\ UNCHANGED <<objVars, callVars, envVars, runVars, fm_branch>>

\* Fastfm.run: fit and predict by the branch of self.__method
FastfmRun ==
    /\ fm_pc = "constructed"
    /\ fm_branch' = RunBranch(fm_method)
    /\ IF RunBranch(fm_method) = "none"
       THEN fm_pc' = "raised" /\ fm_error' = "UnboundLocalError"
       ELSE fm_pc' = "ran" /\ UNCHANGED fm_error
    /\ UNCHANGED <<objVars, callVars, envVars, runVars, fm_arg, fm_rank,
                   fm_estimator, fm_method>>

NextFastfm == FastfmInit \/ FastfmRun

Next ==
    \/ OpenTemps
    \/ BuildArgs
    \/ CallLibfm
    \/ ReadPreds
    \/ BeginParse
    \/ ParseLine
    \/ SaveModel
    \/ ParseRlog
    \/ CloseValidation
    \/ CloseMeta
    \/ CloseTemps
    \/ Return

Spec == Init /\ [][Next]_vars

SpecWellFormed == InitWellFormed /\ [][Next]_vars

SpecFree == InitFree /\ [][Next]_vars

SpecFastfm == InitFastfm /\ [][NextFastfm]_vars

\* ------------------------------------------------- reading a run's state
\* out_iter when line n of ls has been read
RECURSIVE SectionAfter(_, _)
SectionAfter(ls, n) ==
    IF n = 0 THEN OutIterInit
    ELSE IF StartsWithHash(ls[n]) THEN MarkerSection(ls[n], SectionAfter(ls, n-1))
    ELSE SectionAfter(ls, n-1)

\* line k of the model file is a data line read in section sec
DataIn(k, sec) == ~StartsWithHash(lines[k]) /\ SectionAfter(lines, k-1) = sec

\* the lines the loop has been through
Read == 1..(idx - 1)

\* the data lines of the pairwise section read so far
PairData == {k \in Read : DataIn(k, 2)}

\* the element of pairwise_interactions appended for line k of PairData
ElemOf(k) == pairwise_interactions[Cardinality({h \in PairData : h <= k})]

\* the loop raised at line idx
RaisedInParse == pc = "raised" /\ error = "ValueError" /\ idx <= Len(lines)

\* the loop is over: left at its end, or by an exception
ParseDone ==
    \/ pc = "parse" /\ idx > Len(lines)
    \/ pc \in {"rlog", "close_validation", "close_meta", "close_temps", "return",
               "returned"}
    \/ pc = "raised" /\ error \in {"IOError", "TypeError", "EmptyDataError",
                                   "AttributeError"} /\ "predictions.libfm" \in saved

\* run is over
Terminal == pc \in {"returned", "raised"}

\* ------------------------------------------------------------------- C1
\* C1: for a well-formed model file (bias marker and one numeral, weights marker and
\* N numerals, pairwise marker and N rows of R numerals) the loop ends without an
\* error with global_bias that scalar, weights the N values in file order and
\* pairwise_interactions the N rows of R values in file order.
C1_WellFormedParse ==
    libfm.truth.wf =>
        /\ ~RaisedInParse
        /\ ParseDone =>
             /\ global_bias = Some(libfm.truth.b)
             /\ weights = libfm.truth.w
             /\ Len(pairwise_interactions) = Len(libfm.truth.V)
             /\ \A k \in 1..Len(libfm.truth.V) :
                    pairwise_interactions[k] = Row(libfm.truth.V[k])
        /\ pc = "returned" =>
             /\ result.global_bias = Some(libfm.truth.b)
             /\ result.weights = libfm.truth.w
             /\ result.pairwise_interactions = pairwise_interactions

C1_Witness ==
    /\ pc = "returned"
    /\ libfm.truth.wf
    /\ weights = <<1, 2>>
    /\ pairwise_interactions = <<Row(<<1, 2>>), Row(<<2, 2>>)>>

\* ------------------------------------------------------------------- C3
\* a pairwise data line the except branch answers: empty, or a piece between
\* single spaces that is no float
BadRow(line) == \E q \in {SplitOn(line, SP)[j] : j \in 1..Len(SplitOn(line, SP))} : ~IsFloat(q)

\* the floats of a pairwise data line
RowValues(line) == [j \in 1..Len(SplitOn(line, SP)) |-> FloatOf(SplitOn(line, SP)[j])]

\* C3: in the pairwise section no data line aborts the loop; each data line appends
\* exactly one element, in file order: the zero sentinel for an empty line or one
\* with a piece that is no float, the list of its floats otherwise.
C3_PairwiseTolerant ==
    /\ RaisedInParse => out_iter # 2
    /\ Len(pairwise_interactions) = Cardinality(PairData)
    /\ \A k \in PairData :
           ElemOf(k) = IF BadRow(lines[k]) THEN Sentinel ELSE Row(RowValues(lines[k]))

C3_Witness ==
    /\ ParseDone
    /\ pairwise_interactions = <<Row(<<1, 2>>), Sentinel, Row(<<2, 1>>)>>
    /\ lines[3] = <<>>

\* ------------------------------------------------------------------- C4
\* line k is a data line of the bias or weights section that is no single float
BadScalar(k) == (DataIn(k, 0) \/ DataIn(k, 1)) /\ ~IsFloat(lines[k])

\* C4: a data line of the bias or weights section that is no single float ends run
\* by ValueError: the loop never goes past it, nothing is returned and neither
\* weights.libfm nor latent.libfm is written.
C4_ScalarFatal ==
    /\ \A k \in Read : ~BadScalar(k)
    /\ RaisedInParse =>
         /\ BadScalar(idx)
         /\ saved \cap {"weights.libfm", "latent.libfm"} = {}
    /\ (\E k \in 1..Len(lines) : BadScalar(k)) =>
         /\ pc \notin {"rlog", "close_validation", "close_meta", "close_temps",
                       "return", "returned"}
         /\ saved \cap {"weights.libfm", "latent.libfm"} = {}
         /\ result.weights = <<>> /\ result.global_bias = None

C4_Witness ==
    /\ RaisedInParse
    /\ out_iter = 1
    /\ weights = <<1>>
    /\ lines[idx] = <<"1", SP, "2">>

\* ------------------------------------------------------------------- C5
RECURSIVE TrailingEnds(_)
\* the number of line ends at the end of a text
TrailingEnds(text) ==
    IF text # <<>> /\ text[Len(text)] = NL
    THEN 1 + TrailingEnds(SubSeq(text, 1, Len(text)-1))
    ELSE 0

\* the number of blank lines at the end of a text: the line end that closes the last
\* non-blank line is not one
BlankTail(text) ==
    IF TrailingEnds(text) = Len(text) THEN TrailingEnds(text)
    ELSE IF TrailingEnds(text) > 0 THEN TrailingEnds(text) - 1
    ELSE 0

\* the text without its trailing blank lines
BaseText(text) == SubSeq(text, 1, Len(text) - BlankTail(text))

\* the loop's outcome now, as ParseFrom gives it
Outcome == [Parser EXCEPT !.raised = RaisedInParse]

\* C5 as claimed: blank lines at the end of the model file change nothing: the
\* loop gives what it gives without them, and does not fail because of them.
C5_TrailingBlankIgnored ==
    (ParseDone \/ RaisedInParse) /\ BlankTail(model_file) > 0
        /\ ~ParseText(BaseText(model_file)).raised
    => Outcome = ParseText(BaseText(model_file))

\* C5 as amended: each blank line at the end of the model file is read as a data
\* line.  Where the text without them ends in the bias or weights section, the
\* first of them raises ValueError and what was read before is unchanged; where it
\* ends in the pairwise section, each appends one zero sentinel and none fails.
C5_TrailingBlankRead ==
    (ParseDone \/ RaisedInParse) /\ BlankTail(model_file) > 0
    => LET e == ParseText(BaseText(model_file))
       IN IF e.raised THEN Outcome = e
          ELSE IF e.out_iter \in {0, 1}
          THEN /\ Outcome = [e EXCEPT !.raised = TRUE]
               /\ lines[idx] = <<>>
          ELSE Outcome = [e EXCEPT !.pairwise_interactions =
                              @ \o [j \in 1..BlankTail(model_file) |-> Sentinel]]

C5_Witness ==
    /\ ParseDone
    /\ BlankTail(model_file) = 2
    /\ pairwise_interactions = <<Row(<<1, 2>>), Sentinel, Sentinel>>

\* ------------------------------------------------------------------- C6
\* C6: out_iter is 0 until a marker line is read, so as long as no line read starts
\* with '#' every line went to global_bias (the last one read wins) and weights and
\* pairwise_interactions are empty; a file of numeric lines only never fails.
C6_DefaultSectionBias ==
    /\ ((pc = "parse" \/ ParseDone \/ RaisedInParse)
            /\ \A k \in Read : ~StartsWithHash(lines[k])) =>
         /\ out_iter = 0
         /\ weights = <<>>
         /\ pairwise_interactions = <<>>
         /\ global_bias = IF idx = 1 THEN None ELSE Some(FloatOf(lines[idx-1]))
    /\ (\A k \in 1..Len(lines) : IsFloat(lines[k])) =>
         /\ ~RaisedInParse
         /\ pc = "returned" =>
              /\ result.weights = <<>>
              /\ result.pairwise_interactions = <<>>
              /\ result.global_bias =
                    IF lines = <<>> THEN None ELSE Some(FloatOf(lines[Len(lines)]))

C6_Witness ==
    /\ pc = "returned"
    /\ lines = <<<<"2">>, <<"2">>, <<"1">>>>
    /\ result.global_bias = Some(1)

\* ------------------------------------------------------------------- C7
\* s is the word lo / up written in some casing
IsCasing(s, lo, up) == Len(s) = Len(lo) /\ \A k \in 1..Len(s) : s[k] \in {lo[k], up[k]}

\* the estimator class the claim expects for s, "none" for no casing of the three
Expected(s) ==
    IF IsCasing(s, <<"m", "c", "m", "c">>, MCMC) THEN "mcmc.FMClassification"
    ELSE IF IsCasing(s, <<"a", "l", "s">>, ALS) THEN "als.FMClassification"
    ELSE IF IsCasing(s, <<"s", "g", "d">>, SGD) THEN "sgd.FMClassification"
    ELSE "none"

\* C7: Fastfm(learning_method) raises TypeError with no estimator built unless the
\* string is mcmc, als or sgd in some casing; then it builds exactly that estimator,
\* its method is MCMC, ALS or SGD, and run takes one of its two branches.
C7_MethodChecked ==
    fm_pc # "new" =>
        IF Expected(fm_arg) = "none"
        THEN /\ fm_pc = "raised"
             /\ fm_error = "TypeError"
             /\ fm_estimator = NoEstimator
             /\ fm_branch = "none"
        ELSE /\ fm_pc \in {"constructed", "ran"}
             /\ fm_error = ""
             /\ fm_estimator = [cls |-> Expected(fm_arg), rank |-> fm_rank]
             /\ fm_method \in {MCMC, ALS, SGD}
             /\ fm_pc = "ran" => fm_branch \in {"fit", "fit_predict"}
             /\ fm_pc = "ran" =>
                  (fm_branch = "fit_predict" <=> fm_estimator.cls = "mcmc.FMClassification")

C7_Witness ==
    /\ fm_pc = "ran"
    /\ fm_arg = <<"s", "G", "d">>
    /\ fm_estimator.cls = "sgd.FMClassification"
    /\ fm_branch = "fit"

\* ------------------------------------------------------------------- C8
\* a row of numeric tokens, however they are separated
NumericRow(line) ==
    /\ WsTokens(line) # <<>>
    /\ \A j \in 1..Len(WsTokens(line)) :
           \A h \in 1..Len(WsTokens(line)[j]) : WsTokens(line)[j][h] \in Digits

\* the values of its tokens
TokenValues(line) == [j \in 1..Len(WsTokens(line)) |-> DecVal(WsTokens(line)[j])]

\* two spaces in a row
DoubleSpace(line) == \E j \in 1..(Len(line)-1) : line[j] = SP /\ line[j+1] = SP

\* a space before the first token or after the last
EdgeSpace(line) == line # <<>> /\ (line[1] = SP \/ line[Len(line)] = SP)

\* tabs, and no space, between two tokens
TabJoined(line) ==
    \E i, j \in 1..Len(line) :
        /\ i + 1 < j
        /\ line[i] \in Digits
        /\ line[j] \in Digits
        /\ \A h \in (i+1)..(j-1) : line[h] = TAB

\* C8 as claimed: a pairwise row of numeric tokens separated by any whitespace, or
\* with whitespace before or after, is appended as the list of those floats.
C8_WhitespaceSplit ==
    \A k \in PairData :
        NumericRow(lines[k]) => ElemOf(k) = Row(TokenValues(lines[k]))

\* C8 as amended: the line is split at each single space.  A row of numeric tokens
\* with exactly one space between neighbours and no other whitespace is appended as
\* the list of those floats; one with two spaces in a row, a space before the first
\* or after the last token, or only tabs between two tokens is appended as the sentinel.
C8_SingleSpaceSplit ==
    \A k \in PairData :
        NumericRow(lines[k]) =>
            /\ (DoubleSpace(lines[k]) \/ EdgeSpace(lines[k]) \/ TabJoined(lines[k]))
                  => ElemOf(k) = Sentinel
            /\ (~DoubleSpace(lines[k]) /\ ~EdgeSpace(lines[k])
                    /\ \A j \in 1..Len(lines[k]) : lines[k][j] # TAB)
                  => ElemOf(k) = Row(TokenValues(lines[k]))

C8_Witness ==
    /\ ParseDone
    /\ lines = <<PairMarker, <<"1", SP, SP, "2">>, <<"1", TAB, "2">>, <<"2", SP, "1">>>>
    /\ pairwise_interactions = <<Sentinel, Sentinel, Row(<<2, 1>>)>>

\* ------------------------------------------------------------------- C2
\* C2: when run is over, by return or by exception, no temporary file it opened
\* is still open.
C2_TempsClosed == Terminal => open_fds = {}

\* ------------------------------------------------------------------- C9
\* C9: the argument list holds '-seed' and the seed's value exactly when a seed
\* was given to the constructor, 0 included.
C9_SeedPassed ==
    pc \notin {"start", "args"} =>
        /\ (\E k \in 1..Len(args) : args[k] = "-seed") <=> seed_arg.some
        /\ seed_arg.some =>
             \E k \in 1..(Len(args)-1) :
                 args[k] = "-seed" /\ args[k+1] = ToString(seed_arg.val)

\* ------------------------------------------------------------------ C10
\* C10: when the program has written a well-formed predictions file and model file
\* (and the rlog file and the model directory are usable), run returns the model
\* tuple, whatever the learning method, rlog, meta and validation_set.
C10_RunReturns ==
    (Terminal /\ libfm.truth.wf /\ PredPieces(libfm.out) # <<>> /\ ~PredsRaise(libfm.out)
        /\ libfm.rlog_ok /\ dir_ok)
    => pc = "returned"

====
